---- MODULE Spec2Model ----
(***************************************************************************)
(* Model of snake_game.py: the Snake and Apple objects, handle_keys and    *)
(* one iteration of the loop of main().  Cells are pixel coordinates, as   *)
(* in the source (multiples of GRID_SIZE).                                 *)
(***************************************************************************)
EXTENDS Integers, Sequences, FiniteSets, TLC

\* ------------------------------------------------------------------ bounds
\* The board is 2*HalfGridWidth by 2*HalfGridHeight cells (the source's board
\* is 32 by 24; an even cell count keeps the centre on the grid, as there).
HalfGridWidth == 2
HalfGridHeight == 1
\* Events delivered by pg.event.get() to one call of handle_keys.
MaxEvents == 2
\* Snake.length is not allowed to grow past this.
MaxLength == 5

\* --------------------------------------------------------------- constants
GRID_SIZE == 20
SCREEN_WIDTH == 2 * HalfGridWidth * GRID_SIZE
SCREEN_HEIGHT == 2 * HalfGridHeight * GRID_SIZE
GRID_WIDTH == SCREEN_WIDTH \div GRID_SIZE
GRID_HEIGHT == SCREEN_HEIGHT \div GRID_SIZE

UP == <<0, -1>>
DOWN == <<0, 1>>
LEFT == <<-1, 0>>
RIGHT == <<1, 0>>

SPEED == 20
\* The literal 100 of "if snake.speed < 100".
SpeedCap == 100

\* Python's None; like None it is falsy where a direction or a cell is truthy.
None == <<>>

\* The events handle_keys distinguishes: QUIT, KEYDOWN of the four arrows, of
\* SPACE, of any other key, and an event of any other type.
Events == {"QUIT", "K_UP", "K_DOWN", "K_LEFT", "K_RIGHT", "K_SPACE", "K_a", "MOUSEMOTION"}

RECURSIVE SeqsUpTo(_, _)
SeqsUpTo(S, n) ==
    IF n = 0 THEN {<<>>}
    ELSE LET shorter == SeqsUpTo(S, n - 1)
         IN  shorter \cup {Append(s, e) : s \in {t \in shorter : Len(t) = n - 1}, e \in S}

EventSeqs == SeqsUpTo(Events, MaxEvents)

\* ------------------------------------------------------------------- state
VARIABLES
    position,             \* Snake.position (GameObject.position of the snake)
    speed,                \* Snake.speed
    paused,               \* Snake.paused
    game_over,            \* Snake.game_over
    direction,            \* Snake.direction
    next_direction,       \* Snake.next_direction
    length,               \* Snake.length
    positions,            \* Snake.positions, head first
    last,                 \* Snake.last
    apple_position,       \* Apple.position
    snake_positions,      \* the list Apple.snake_positions refers to
    aliased,              \* Apple.snake_positions is the same list object as Snake.positions
    running,              \* main's running
    new_position,         \* the local new_position of Apple.generate_new_position
    placing               \* where Apple.generate_new_position is: "no" (not in a call
                          \* followed draw by draw), "draw" (in its loop), "returned"

vars == <<position, speed, paused, game_over, direction, next_direction, length,
          positions, last, apple_position, snake_positions, aliased, running,
          new_position, placing>>

\* ----------------------------------------------------------------- helpers
\* The elements of a list, for Python's "in".
Cells(s) == {s[i] : i \in 1..Len(s)}

\* Python's s[2:].
Tail2(s) == IF Len(s) > 2 THEN SubSeq(s, 3, Len(s)) ELSE <<>>

\* direction_mapping.get(event.key, None)
direction_mapping(e) ==
    CASE e = "K_UP" -> UP
      [] e = "K_DOWN" -> DOWN
      [] e = "K_LEFT" -> LEFT
      [] e = "K_RIGHT" -> RIGHT
      [] OTHER -> None

\* Mutant of Accepted: the reverse of the current direction is not excluded.
Accepted_any(dir, new_direction) == new_direction # None

\* The condition of handle_keys under which new_direction is stored.
Accepted(dir, new_direction) ==
    /\ new_direction # None
    /\ \/ dir = UP /\ new_direction # DOWN
       \/ dir = DOWN /\ new_direction # UP
       \/ dir = LEFT /\ new_direction # RIGHT
       \/ dir = RIGHT /\ new_direction # LEFT

\* Mutant of handle_keys_from: a direction is stored only while none is
\* buffered, so the first accepted request wins.
RECURSIVE handle_keys_from_keepfirst(_, _, _)
handle_keys_from_keepfirst(evs, i, st) ==
    IF i > Len(evs) THEN st
    ELSE LET e == evs[i] IN
         IF e = "QUIT" THEN [st EXCEPT !.running = FALSE]
         ELSE IF e = "MOUSEMOTION" THEN handle_keys_from_keepfirst(evs, i + 1, st)
         ELSE IF e = "K_SPACE"
              THEN handle_keys_from_keepfirst(evs, i + 1, [st EXCEPT !.paused = ~st.paused])
         ELSE IF Accepted(direction, direction_mapping(e)) /\ st.next_direction = None
              THEN handle_keys_from_keepfirst(evs, i + 1,
                                    [st EXCEPT !.next_direction = direction_mapping(e)])
         ELSE handle_keys_from_keepfirst(evs, i + 1, st)

\* handle_keys: the loop over the events from index i on, from the snake
\* fields in st; .running is the value returned.  QUIT returns at once.
RECURSIVE handle_keys_from(_, _, _)
handle_keys_from(evs, i, st) ==
    IF i > Len(evs) THEN st
    ELSE LET e == evs[i] IN
         IF e = "QUIT" THEN [st EXCEPT !.running = FALSE]
         ELSE IF e = "MOUSEMOTION" THEN handle_keys_from(evs, i + 1, st)
         ELSE IF e = "K_SPACE"
              THEN handle_keys_from(evs, i + 1, [st EXCEPT !.paused = ~st.paused])
         ELSE IF Accepted(direction, direction_mapping(e))
              THEN handle_keys_from(evs, i + 1,
                                    [st EXCEPT !.next_direction = direction_mapping(e)])
         ELSE handle_keys_from(evs, i + 1, st)

handle_keys(evs) ==
    handle_keys_from(evs, 1, [running |-> TRUE, paused |-> paused,
                              next_direction |-> next_direction])

\* Snake.update_direction: the direction after it, given the buffered one.
update_direction(nd) == IF nd # None THEN nd ELSE direction

\* Mutant of move: the head advances two cells.
move_two(d) ==
    << (position[1] + d[1] * GRID_SIZE * 2) % SCREEN_WIDTH,
       (position[2] + d[2] * GRID_SIZE * 2) % SCREEN_HEIGHT >>

\* Mutant of move: no wrap-around.
move_nowrap(d) ==
    << position[1] + d[1] * GRID_SIZE, position[2] + d[2] * GRID_SIZE >>

\* Snake.move: the next head, for the committed direction d.
move(d) ==
    << (position[1] + d[1] * GRID_SIZE) % SCREEN_WIDTH,
       (position[2] + d[2] * GRID_SIZE) % SCREEN_HEIGHT >>

\* Mutant of is_game_over: the slice starts at index 1.
is_game_over_from1(next_position) ==
    game_over \/ (Len(positions) > 1 /\ next_position \in Cells(SubSeq(positions, 2, Len(positions))))

\* Snake.is_game_over: the value of game_over after it.
is_game_over(next_position) == game_over \/ next_position \in Cells(Tail2(positions))

\* Snake.insert_next_position: the list after the insert.
insert_next_position(next_position) == <<next_position>> \o positions

\* Mutant of del_last_segment: ">=" for ">", so the tail is removed on a
\* growth step too.
del_last_segment_ge(ps) ==
    IF Len(ps) >= length
    THEN [positions |-> SubSeq(ps, 1, Len(ps) - 1), last |-> ps[Len(ps)]]
    ELSE [positions |-> ps, last |-> last]

\* Mutant of del_last_segment: a loop that pops while the list is not shorter
\* than length.
del_last_segment_loop(ps) ==
    IF Len(ps) >= length
    THEN [positions |-> SubSeq(ps, 1, length - 1), last |-> ps[length]]
    ELSE [positions |-> ps, last |-> last]

\* Snake.del_last_segment on list ps: the list and Snake.last after it.
del_last_segment(ps) ==
    IF Len(ps) > length
    THEN [positions |-> SubSeq(ps, 1, Len(ps) - 1), last |-> ps[Len(ps)]]
    ELSE [positions |-> ps, last |-> last]

\* Mutant of GridCells: randint(0, GRID_WIDTH) and randint(0, GRID_HEIGHT), the
\* upper ends included.
GridCells_inclusive ==
    {<<x * GRID_SIZE, y * GRID_SIZE>> : x \in 0..GRID_WIDTH, y \in 0..GRID_HEIGHT}

\* All cells randint can draw in Apple.generate_new_position.
GridCells ==
    {<<x * GRID_SIZE, y * GRID_SIZE>> : x \in 0..(GRID_WIDTH - 1), y \in 0..(GRID_HEIGHT - 1)}

\* Mutant of generate_new_position: the drawn cell is returned untested.
generate_new_position_any(occupied) == GridCells

\* Apple.generate_new_position: the cells it can return when the list it
\* tests against is occupied; it returns none (loops for ever) when empty.
generate_new_position(occupied) == {c \in GridCells : c \notin Cells(occupied)}

\* Mutant of grow_speed: the increment is 2.
grow_speed_two(s) == IF s < SpeedCap THEN s + 2 ELSE s

\* Mutant of grow_speed: "<=" for "<".
grow_speed_le(s) == IF s <= SpeedCap THEN s + 1 ELSE s

\* The speed after an apple is eaten: "if snake.speed < 100: snake.speed += 1".
grow_speed(s) == IF s < SpeedCap THEN s + 1 ELSE s

\* -------------------------------------------------------------------- Init
\* main() up to the loop: Snake(), Apple(snake.positions).
Init ==
    /\ position = <<SCREEN_WIDTH \div 2, SCREEN_HEIGHT \div 2>>
    /\ speed = SPEED
    /\ paused = FALSE
    /\ game_over = FALSE
    /\ direction = RIGHT
    /\ next_direction = None
    /\ length = 1
    /\ positions = <<position>>
    /\ last = None
    /\ snake_positions = positions
    /\ aliased = TRUE
    /\ apple_position \in generate_new_position(snake_positions)
    /\ running = TRUE
    /\ new_position = None
    /\ placing = "no"

\* ----------------------------------------------------------------- actions
\* The list Apple.snake_positions refers to once Snake.positions holds ps.
SeenByApple(ps) == IF aliased THEN ps ELSE snake_positions

\* The guarded block of the loop body of main (lines 217-225), with nd the
\* buffered direction left by handle_keys.
Step(nd) ==
    LET d == update_direction(nd)
        next_position == move(d)
        after == del_last_segment(insert_next_position(next_position))
    IN  /\ direction' = d
        /\ next_direction' = None
        /\ game_over' = is_game_over(next_position)
        /\ position' = next_position
        /\ positions' = after.positions
        /\ last' = after.last
        /\ snake_positions' = SeenByApple(after.positions)
        /\ IF next_position = apple_position
           THEN /\ length < MaxLength
                /\ length' = length + 1
                /\ speed' = grow_speed(speed)
                /\ apple_position' \in generate_new_position(snake_positions')
           ELSE UNCHANGED <<length, speed, apple_position>>

\* Mutant of main_loop: the guard does not test snake.paused.
main_loop_nopause(evs) ==
    LET k == handle_keys(evs)
    IN  /\ running
        /\ running' = k.running
        /\ paused' = k.paused
        /\ aliased' = aliased
        /\ IF ~game_over
           THEN Step(k.next_direction)
           ELSE /\ next_direction' = k.next_direction
                /\ UNCHANGED <<position, speed, game_over, direction, length, positions,
                               last, apple_position, snake_positions>>

\* Mutant of main_loop: the guard does not test snake.game_over.
main_loop_noover(evs) ==
    LET k == handle_keys(evs)
    IN  /\ running
        /\ running' = k.running
        /\ paused' = k.paused
        /\ aliased' = aliased
        /\ IF ~k.paused
           THEN Step(k.next_direction)
           ELSE /\ next_direction' = k.next_direction
                /\ UNCHANGED <<position, speed, game_over, direction, length, positions,
                               last, apple_position, snake_positions>>

\* One iteration of the loop of main, handle_keys receiving the events evs.
main_loop(evs) ==
    LET k == handle_keys(evs)
    IN  /\ running
        /\ running' = k.running
        /\ paused' = k.paused
        /\ aliased' = aliased
        /\ IF ~(game_over \/ k.paused)
           THEN Step(k.next_direction)
           ELSE /\ next_direction' = k.next_direction
                /\ UNCHANGED <<position, speed, game_over, direction, length, positions,
                               last, apple_position, snake_positions>>

Tick == \E evs \in EventSeqs : main_loop(evs)

\* In Tick a call of generate_new_position is one step (Step takes its result
\* from the set of cells it can return), so its loop is not followed.
Next == Tick /\ UNCHANGED <<new_position, placing>>

Spec == Init /\ [][Next]_vars

\* Snake.reset, called between two iterations of the loop.  It rebinds
\* Snake.positions to a new list, so the list the apple holds stays as it was.
reset ==
    /\ running
    /\ length' = 1
    /\ positions' = <<position>>
    /\ direction' = RIGHT
    /\ last' = None
    /\ aliased' = FALSE
    /\ UNCHANGED <<position, speed, paused, game_over, next_direction,
                   apple_position, snake_positions, running>>

\* An iteration of the loop in which pg.event.get() returns no event.
TickIdle == main_loop(<<>>)

\* The program driven without keyboard input, and with calls of reset.
NextReset == (TickIdle \/ reset) /\ UNCHANGED <<new_position, placing>>

SpecReset == Init /\ [][NextReset]_vars

\* ------------------------------------------- generate_new_position, by draw
\* The cell one GRID_SIZE from cell c in direction d, as Snake.move computes it.
Moved(c, d) ==
    << (c[1] + d[1] * GRID_SIZE) % SCREEN_WIDTH,
       (c[2] + d[2] * GRID_SIZE) % SCREEN_HEIGHT >>

\* The bodies (head first) of n cells a snake can have when an apple is
\* placed: each cell one move from the one behind it, no cell twice.
RECURSIVE Bodies(_)
Bodies(n) ==
    IF n = 1 THEN {<<c>> : c \in GridCells}
    ELSE UNION {{<<h>> \o b :
                    h \in {Moved(b[1], d) : d \in {UP, DOWN, LEFT, RIGHT}} \ Cells(b)} :
                b \in Bodies(n - 1)}

\* Bodies of every length up to the whole board.
AllBodies == UNION {Bodies(n) : n \in 1..(GRID_WIDTH * GRID_HEIGHT)}

\* A call of apple.generate_new_position() at line 225 of main: the head is on
\* the apple, length has been incremented, and the list the apple holds is
\* the snake's body b.  Only snake_positions is read by the call.
InitPlace ==
    \E b \in AllBodies :
        /\ positions = b
        /\ position = b[1]
        /\ snake_positions = b
        /\ aliased = TRUE
        /\ apple_position = b[1]
        /\ length = Len(b) + 1
        /\ speed = IF SPEED + Len(b) < SpeedCap THEN SPEED + Len(b) ELSE SpeedCap
        /\ direction = IF Len(b) = 1 THEN RIGHT
                       ELSE CHOOSE d \in {UP, DOWN, LEFT, RIGHT} : Moved(b[2], d) = b[1]
        /\ next_direction = None
        /\ last = None
        /\ paused = FALSE
        /\ game_over = FALSE
        /\ running = TRUE
        /\ new_position = None
        /\ placing = "draw"

\* One iteration of the while loop of generate_new_position (lines 161-166) in
\* which randint gives the cell c, and, when it returns, the assignment of the
\* result to apple.position.
Draw(c) ==
    /\ placing = "draw"
    /\ new_position' = c
    /\ IF c \notin Cells(snake_positions)
       THEN /\ placing' = "returned"
            /\ apple_position' = c
       ELSE /\ placing' = "draw"
            /\ apple_position' = apple_position
    /\ UNCHANGED <<position, speed, paused, game_over, direction, next_direction, length,
                   positions, last, snake_positions, aliased, running>>

NextPlace == \E c \in GridCells : Draw(c)

\* randint draws every cell again and again: no cell is left out for ever.
FairDraws == \A c \in GridCells : WF_vars(Draw(c))

SpecPlace == InitPlace /\ [][NextPlace]_vars /\ FairDraws

\* ------------------------------------------------------------------ claims
\* The direction opposite to d.
Opposite(d) == <<0 - d[1], 0 - d[2]>>

\* The grid cell (column, row) of a pixel position.
CellOf(p) == <<p[1] \div GRID_SIZE, p[2] \div GRID_SIZE>>

\* A transition in which the loop body executed lines 217-225: the snake was
\* not over and is not paused once handle_keys has run.
Stepped == running /\ ~game_over /\ ~paused'

\* C1: the food cell is never a cell of the snake's body, initially and after
\* every tick; so every cell generate_new_position returned was free.
C1_FoodDisjoint == apple_position \notin Cells(positions)

\* C1 witness: the apple was eaten and placed again at least twice, the snake
\* being two or more cells long.
C1_Witness == length >= 3 /\ Len(positions) >= 2 /\ apple_position \notin Cells(positions)

\* C2: a step sets game_over exactly when the next head is a cell of the
\* pre-move body at index 2 or later (Python index); the head itself and the
\* cell behind it do not count.
C2_OverIffTailHit ==
    [][Stepped =>
         (game_over' <=> \E i \in 3..Len(positions) : positions[i] = position')]_vars

\* C2 witness: a step set game_over on a body of three or more cells.
C2_Witness == game_over /\ Len(positions) >= 3

\* C2, the excluded cells: the head landed on the cell that was immediately
\* behind it (it is now two behind the head) and the game is not over.
C2_WitnessBehindHead ==
    /\ ~game_over
    /\ Len(positions) >= 3
    /\ positions[3] = positions[1]

\* C3: the direction a step commits is never the opposite of the direction
\* committed before it, whatever keys arrived in between; and when the last
\* event of the tick is the key of a direction perpendicular to the committed
\* one, the step of that tick commits it.
C3_NoReverse ==
    /\ [][direction' # Opposite(direction)]_vars
    /\ [](\A evs \in EventSeqs :
            (/\ evs # <<>>
             /\ \A i \in 1..Len(evs) : evs[i] # "QUIT"
             /\ direction_mapping(evs[Len(evs)]) \notin {None, direction, Opposite(direction)})
            => update_direction(handle_keys(evs).next_direction)
                 = direction_mapping(evs[Len(evs)]))

\* C3 witness: the snake has turned: it heads UP or DOWN from the initial RIGHT
\* and has moved there.
C3_Witness == direction \in {UP, DOWN} /\ last # None /\ position[2] # SCREEN_HEIGHT \div 2

\* C4: growth is lazy.  On the step that eats (length is incremented) the body
\* is not made longer by that increment: it is as long as length was.  On the
\* next executed step (the body is one short of length) the body gets longer
\* by exactly one.
C4_LazyGrowth ==
    [][Stepped =>
         /\ (length' = length + 1 => Len(positions') = length)
         /\ (Len(positions) < length => Len(positions') = Len(positions) + 1)]_vars

\* C4 witness: the growth of one eaten apple has been realised by a later step
\* that ate nothing.
C4_Witness == length = 2 /\ Len(positions) = 2

\* C4, the pending state: an apple was eaten and the body has not grown yet.
C4_WitnessPending == length = 2 /\ Len(positions) = 1

\* C5: speed stays between SPEED and the cap of 100 (5 * SPEED), and never
\* decreases.
C5_SpeedBounds ==
    /\ [](speed \in SPEED..SpeedCap /\ SpeedCap = 5 * SPEED)
    /\ [][speed' >= speed]_vars

\* C5 witness: enough apples were eaten for speed to arrive at the cap.
C5_Witness == speed = SpeedCap

\* C6: over a tick neither length nor the body's length decreases, and the
\* body is never empty.
C6_LengthMonotone ==
    /\ [](Len(positions) >= 1)
    /\ [][length' >= length /\ Len(positions') >= Len(positions)]_vars

\* C6 witness: the body has grown to three cells or more.
C6_Witness == Len(positions) >= 3 /\ length >= 3

\* The coordinate one cell from c in direction component d, wrapped into 0..n-1.
WrapNext(c, d, n) ==
    IF c + d = n THEN 0 ELSE IF c + d = 0 - 1 THEN n - 1 ELSE c + d

\* C7: a step moves the head one cell in the committed direction, wrapping at
\* the edges, and every cell of the body is a cell of the grid.
C7_Wrap ==
    /\ [](\A c \in Cells(positions) : c \in GridCells)
    /\ [][Stepped =>
            /\ position' \in GridCells
            /\ CellOf(position')[1] = WrapNext(CellOf(position)[1], direction'[1], GRID_WIDTH)
            /\ CellOf(position')[2] = WrapNext(CellOf(position)[2], direction'[2], GRID_HEIGHT)]_vars

\* C7 witness: moving RIGHT from the last column the head arrived in column 0.
C7_Witness ==
    /\ direction = RIGHT
    /\ Len(positions) = 1 /\ length = 1
    /\ position[1] = 0
    /\ last = <<SCREEN_WIDTH - GRID_SIZE, position[2]>>

\* C7: moving LEFT from column 0 the head arrived in the last column.
C7_WitnessLeft ==
    /\ direction = LEFT
    /\ Len(positions) = 1 /\ length = 1
    /\ position[1] = SCREEN_WIDTH - GRID_SIZE
    /\ last = <<0, position[2]>>

\* C7: moving UP from row 0 the head arrived in the last row.
C7_WitnessUp ==
    /\ direction = UP
    /\ Len(positions) = 1 /\ length = 1
    /\ position[2] = SCREEN_HEIGHT - GRID_SIZE
    /\ last = <<position[1], 0>>

\* C8: a tick that finds the snake paused performs no step (body, direction,
\* length, speed, game_over and the apple are unchanged); direction keys that
\* arrive while paused are buffered under the no-reverse rule; and when play
\* resumes with a direction buffered, the first step commits it.
C8_Paused ==
    /\ [][paused' =>
            UNCHANGED <<position, positions, last, direction, length, speed, game_over,
                        apple_position>>]_vars
    /\ [](paused =>
            \A e \in Events :
                LET k == handle_keys(<<e>>)
                    d == direction_mapping(e)
                IN  IF d \in {UP, DOWN, LEFT, RIGHT} /\ d # Opposite(direction)
                    THEN k.paused /\ k.next_direction = d
                    ELSE e \in {"QUIT", "K_SPACE"} \/ (k.paused /\ k.next_direction = next_direction))
    /\ [](paused /\ next_direction # None =>
            LET k == handle_keys(<<"K_SPACE">>)
            IN  ~k.paused /\ update_direction(k.next_direction) = next_direction)

\* C8 witness: the game is paused and a direction request made during the
\* pause is buffered.
C8_Witness == paused /\ ~game_over /\ next_direction \in {UP, DOWN} /\ direction = RIGHT

\* C9: once game_over is set it stays set, and the body, length, speed and the
\* apple do not change any more, whatever events arrive.
C9_OverAbsorbing ==
    [][game_over =>
         /\ game_over'
         /\ UNCHANGED <<position, positions, length, speed, apple_position>>]_vars

\* C9 witness: the game is over, and pause was toggled and a direction key
\* pressed after that.
C9_Witness == game_over /\ paused /\ next_direction # None

\* C10: reset leaves length 1, the body the initial centre cell alone,
\* direction RIGHT, no buffered direction, game_over false and last None.
C10_ResetRestores ==
    [][reset =>
         /\ length' = 1
         /\ positions' = << <<SCREEN_WIDTH \div 2, SCREEN_HEIGHT \div 2>> >>
         /\ direction' = RIGHT
         /\ next_direction' = None
         /\ game_over' = FALSE
         /\ last' = None]_vars

\* C10, what reset does restore: length, direction, last, and a body of one
\* cell (the current head).
C10_ResetActual ==
    [][reset =>
         /\ length' = 1
         /\ positions' = <<position>>
         /\ direction' = RIGHT
         /\ last' = None
         /\ UNCHANGED <<next_direction, game_over, speed>>]_vars

\* The snake's body covers the whole board.
BoardFull == \A x \in 0..(GRID_WIDTH - 1), y \in 0..(GRID_HEIGHT - 1) :
                 <<x * GRID_SIZE, y * GRID_SIZE>> \in Cells(positions)

\* Cell c lies in [0, W) x [0, H) of the grid.
InGrid(c) ==
    /\ c[1] % GRID_SIZE = 0 /\ c[2] % GRID_SIZE = 0
    /\ CellOf(c)[1] \in 0..(GRID_WIDTH - 1)
    /\ CellOf(c)[2] \in 0..(GRID_HEIGHT - 1)

\* C11: a placement requested while the snake covers every cell of the board
\* ends (in a failure that can be reported) instead of never returning.
C11_FullBoardEnds == (placing = "draw" /\ BoardFull) ~> (placing # "draw")

\* C11, what the code does: on a full board the call stays in its loop.
C11_FullBoardLoops == [](BoardFull /\ snake_positions = positions => placing = "draw")

\* C11: the full board is reached and cells have been drawn on it.
C11_WitnessFull == BoardFull /\ placing = "draw" /\ new_position # None

\* C16: while a cell of the board is free, a placement whose draws leave no
\* cell out for ever returns, and the cell committed is in the grid.
C16_PlacementTerminates ==
    /\ (placing = "draw" /\ ~BoardFull) ~> (placing = "returned")
    /\ [](placing = "returned" => InGrid(apple_position))

\* C16 witness: a placement returned the only free cell of the board.
C16_Witness ==
    /\ placing = "returned"
    /\ Len(positions) = GRID_WIDTH * GRID_HEIGHT - 1
    /\ apple_position \notin Cells(positions)

\* C12: a step that detects the collision changes nothing but game_over:
\* the body, last, length, speed and the apple are as before it.
C12_CollisionNoMutation ==
    [][(Stepped /\ game_over') =>
         UNCHANGED <<positions, last, length, speed, apple_position>>]_vars

\* C12, what the code does: on the step that detects the collision the head is
\* inserted all the same and the tail handled as on any step; length, speed
\* and the apple are unchanged.
C12_CollisionActual ==
    [][(Stepped /\ game_over') =>
         /\ positions' = del_last_segment(<<position'>> \o positions).positions
         /\ positions'[1] \in Cells(Tail2(positions))
         /\ UNCHANGED <<length, speed, apple_position>>]_vars

\* No cell occurs twice in list s.
NoDuplicates(s) == \A i, j \in 1..Len(s) : i # j => s[i] # s[j]

\* C13: in every reachable state, the Over state included, the body holds no
\* cell twice.
C13_NoDuplicates == NoDuplicates(positions)

\* C13, the Over state alone: once the game is over the body holds no cell
\* twice.
C13_OverNoDuplicates == game_over => NoDuplicates(positions)

\* Cells a and b are one grid step apart in exactly one coordinate, the
\* other being equal, across the edge of the board included.
Adjacent(a, b) ==
    LET dx == IF a[1] >= b[1] THEN a[1] - b[1] ELSE b[1] - a[1]
        dy == IF a[2] >= b[2] THEN a[2] - b[2] ELSE b[2] - a[2]
    IN  \/ dy = 0 /\ dx \in {GRID_SIZE, SCREEN_WIDTH - GRID_SIZE}
        \/ dx = 0 /\ dy \in {GRID_SIZE, SCREEN_HEIGHT - GRID_SIZE}

\* C14: consecutive cells of the body are one grid step apart in exactly one
\* coordinate, modulo the width and height of the board.
C14_BodyAdjacent == \A i \in 1..(Len(positions) - 1) : Adjacent(positions[i], positions[i + 1])

\* C14 witness: a body of three or more cells that lies across the left and
\* right edge of the board.
C14_Witness ==
    /\ Len(positions) >= 3
    /\ \E i \in 1..(Len(positions) - 1) :
           {positions[i][1], positions[i + 1][1]} = {0, SCREEN_WIDTH - GRID_SIZE}

\* The events handle_keys processes: those before the first QUIT.
Processed(evs) ==
    {i \in 1..Len(evs) : \A j \in 1..i : evs[j] # "QUIT"}

\* The processed requests that pass the no-reverse test against direction.
AcceptedAt(evs) ==
    {i \in Processed(evs) :
        direction_mapping(evs[i]) \in {UP, DOWN, LEFT, RIGHT} \ {Opposite(direction)}}

\* The direction buffered after the events: the last accepted one, or what
\* was buffered before when none is accepted.
LastAccepted(evs) ==
    IF AcceptedAt(evs) = {} THEN next_direction
    ELSE direction_mapping(evs[CHOOSE i \in AcceptedAt(evs) : \A j \in AcceptedAt(evs) : j <= i])

\* C15: requests are overwritten, not queued.  After any events the buffer
\* holds the last request that passed the no-reverse test (rejected requests
\* leave it as it was), the step commits that one or, the buffer being empty,
\* keeps the direction; the step empties the buffer, and only a step changes
\* the direction.
C15_LastAcceptedWins ==
    /\ [](\A evs \in EventSeqs :
            LET nd == handle_keys(evs).next_direction
                la == LastAccepted(evs)
            IN  /\ nd = la
                /\ update_direction(nd) = IF la = None THEN direction ELSE la)
    /\ [][(Stepped => next_direction' = None)
          /\ (~Stepped => direction' = direction)]_vars

\* C15 witness: after a turn to UP the game was paused and a new request,
\* LEFT, is buffered.
C15_Witness == paused /\ ~game_over /\ direction = UP /\ next_direction = LEFT

\* C17: length is the body's length or one more, and it is one more exactly
\* after a step that ate the apple (ticks without a step change neither).
C17_LengthLag ==
    /\ [](length - Len(positions) \in {0, 1})
    /\ [][/\ Stepped => (length' - Len(positions') = 1 <=> length' = length + 1)
          /\ ~Stepped => UNCHANGED <<length, positions>>]_vars

\* C17 witness: the third apple was just eaten: length is one ahead of a body
\* of three cells.
C17_Witness == length = 4 /\ Len(positions) = 3

\* The smaller of two integers.
Min(a, b) == IF a <= b THEN a ELSE b

\* C18: as long as reset has not been called, speed = min(SPEED + (length - 1),
\* 100); and every apple eaten raises speed by 1 below the cap, by 0 at it.
C18_SpeedOfLength ==
    /\ [](aliased => speed = Min(SPEED + (length - 1), SpeedCap))
    /\ [][length' = length + 1 => speed' = Min(speed + 1, SpeedCap)]_vars

\* C18 witness: without any reset four apples were eaten.
C18_Witness == aliased /\ length = 5 /\ speed = SPEED + 4

\* C18, at the cap: an apple was eaten with speed at 100 already.
C18_WitnessCap == speed = SpeedCap /\ length = 5

\* C19: whenever an apple is placed (one was eaten), the list the apple tests
\* candidates against is the snake's current body, resets included.
C19_AppleSeesBody == [][length' = length + 1 => snake_positions' = positions']_vars

\* C19, without reset: as long as reset has not been called the list the
\* apple holds is the snake's body.
C19_SeesBodyUntilReset == aliased => snake_positions = positions

\* C19, the consequence: after a reset the apple can be placed on the snake.
C19_FoodDisjointAfterReset == apple_position \notin Cells(positions)

\* C20: at the end of every tick last, when present, is not a cell of the body.
C20_LastNotInBody == last # None => last \notin Cells(positions)

\* C20, the tick that sets game_over: when the game is over last, when
\* present, is not a cell of the body.
C20_OverLastNotInBody == (game_over /\ last # None) => last \notin Cells(positions)

\* C20, a growth tick away from the edges: a body of four cells on a square of
\* the board whose head is on the retained last, the game not being over.
C20_GrowthLastIsHead ==
    /\ ~game_over
    /\ Len(positions) = 4
    /\ last = positions[1]
    /\ \A i \in 1..4 : positions[i][1] \in {GRID_SIZE, 2 * GRID_SIZE}
    /\ positions[1][2] = positions[2][2]

====
